---------------------------- MODULE Spec2Model ----------------------------
(***************************************************************************)
(* A model of the VS Code client glue of rust-analyzer:                    *)
(*   - sendRequestWithRetry (editors/code/src/ctx.ts), as a state machine  *)
(*     over its await points;                                              *)
(*   - ColorTheme, loadThemeNamed and loadThemeFile (the theme loader), as *)
(*     operators over insertion-ordered maps and as a call-stack machine.  *)
(***************************************************************************)
EXTENDS Integers, Sequences, FiniteSets, TLC

VARIABLES
    \* ---- sendRequestWithRetry ----
    pc,         \* position of the async function: call, await, sleep, returned, threw
    idx,        \* position of the for-of loop in Delays
    args,       \* the arguments of the call: method, param, token
    log,        \* what the function has done so far: sends, settlements, sleeps
    outcome,    \* what the returned promise settled with
    \* ---- ColorTheme object operations ----
    tpc,        \* last operation applied to the theme object
    rules,      \* the argument of the last ColorTheme.fromRules
    theme,      \* the ColorTheme under construction (this)
    other,      \* the argument of the last mergeFrom
    prev,       \* this.rules before the last mergeFrom
    scopesArg,  \* the argument of the last lookup
    looked,     \* the result of the last lookup
    \* ---- loadThemeNamed and loadThemeFile ----
    fsys,       \* the theme files on disk: path -> readable?, parsed content
    themePaths, \* the theme files of the active theme, in extension order
    globalCust, \* editor.tokenColorCustomizations
    themeCust,  \* editor.tokenColorCustomizations["[themeName]"]
    lpc,        \* position of loadThemeNamed: files, global, done
    tp,         \* position of the loop over themePaths
    stack,      \* the frames of loadThemeFile: path, res, position in include
    res,        \* res of loadThemeNamed
    ret,        \* the call of loadThemeFile that returned last, and its value
    returns,    \* the calls of loadThemeFile by loadThemeNamed that returned
    visits,     \* the paths loadThemeFile was called with since loadThemeNamed called it
    afterFiles  \* res of loadThemeNamed once the theme files are merged

retryVars == <<pc, idx, args, log, outcome>>
themeVars == <<tpc, rules, theme, other, prev, scopesArg, looked>>
loadVars == <<fsys, themePaths, globalCust, themeCust, lpc, tp, stack, res, ret, returns, visits, afterFiles>>
vars == <<pc, idx, args, log, outcome, tpc, rules, theme, other, prev, scopesArg, looked,
          fsys, themePaths, globalCust, themeCust, lpc, tp, stack, res, ret, returns, visits, afterFiles>>

\* JavaScript's undefined and null
Undef == "undefined"
Null == "null"

(***************************************************************************)
(*                        sendRequestWithRetry                             *)
(***************************************************************************)

\* lc.ErrorCodes.ContentModified and some other codes a response error carries
ContentModified == "ContentModified"
ErrorCodes == {ContentModified, "RequestCancelled", Undef}

Methods == {"textDocument/hover", "rust-analyzer/inlayHints"}
Tokens == {Undef, "token"}
Results == {"r1", "r2"}

\* the value attempt k resolves with
ResultOf(r, k) == [tag |-> "result", code |-> r, attempt |-> k]
\* the error object attempt k rejects with
ErrorOf(code, k) == [tag |-> "error", code |-> code, attempt |-> k]
\* a rejection with undefined or null: reading .code of it throws a TypeError
Nullish == [tag |-> "nullish", code |-> Undef, attempt |-> 0]
TypeError == [tag |-> "TypeError", code |-> Undef, attempt |-> 0]
Unreachable == [tag |-> "unreachable", code |-> Undef, attempt |-> 0]
\* the promise has not settled
Pending == [tag |-> "pending", code |-> Undef, attempt |-> 0]

Rejections(k) == {ErrorOf(c, k) : c \in ErrorCodes} \cup {Nullish}

\* an element of the delay array: a number, or null
Num(n) == [isNull |-> FALSE, num |-> n]
NullDelay == [isNull |-> TRUE, num |-> 0]

\* the array the for-of loop walks: [2, 4, 6, 8, 10, null]
Delays == <<Num(2), Num(4), Num(6), Num(8), Num(10), NullDelay>>

RECURSIVE Pow2(_)
Pow2(n) == IF n = 0 THEN 1 ELSE 2 * Pow2(n - 1)

\* ToNumber of an element of the delay array: null converts to 0
ToNumber(delay) == IF delay.isNull THEN 0 ELSE delay.num

\* x << n: the shift count is taken modulo 32; the products here (at most
\* 1 << 10) stay far below 2^31, so no 32-bit wrap-around can occur
Shl(x, n) == x * Pow2(n % 32)

\* mutant of the backoff: linear instead of exponential
SleepMsLinear(delay) == 10 * (2 * ToNumber(delay))

\* the argument of sleep: 10 * (1 << delay)
SleepMs(delay) == 10 * Shl(1, ToNumber(delay))

\* mutants of the catch block's condition
RethrowsOnlyLast(delay, err) == delay.isNull
RethrowsByCodeOnly(delay, err) == err.code # ContentModified

\* the condition of the catch block's throw: delay === null || err.code !== ContentModified
Rethrows(delay, err) == delay.isNull \/ err.code # ContentModified

\* the entries of the log: a call of client.sendRequest (with the token as a
\* third argument when one was given), the settlement of attempt k, a sleep
SendEvent(k) == [ev |-> "send", n |-> k, method |-> args.method,
                 argc |-> IF args.token # Undef THEN 3 ELSE 2]
SettleEvent(k, ok, v) == [ev |-> IF ok THEN "ok" ELSE "fail", n |-> k, value |-> v]
SleepEvent(ms) == [ev |-> "sleep", ms |-> ms]

\* the other components at rest, in the specifications that do not run them
IdleTheme ==
    /\ tpc = "idle" /\ rules = <<>> /\ theme = <<>> /\ other = <<>>
    /\ prev = [this |-> <<>>, other |-> <<>>] /\ scopesArg = <<>>
    /\ looked = [foreground |-> Undef, background |-> Undef, fontStyle |-> Undef]

IdleLoad ==
    /\ fsys = <<>> /\ themePaths = <<>> /\ lpc = "idle" /\ tp = 1
    /\ globalCust = [defined |-> FALSE, textMateRules |-> [defined |-> FALSE, items |-> <<>>]]
    /\ themeCust = [defined |-> FALSE, textMateRules |-> [defined |-> FALSE, items |-> <<>>]]
    /\ stack = <<>> /\ res = <<>> /\ returns = <<>> /\ visits = <<>> /\ afterFiles = <<>>
    /\ ret = [called |-> FALSE, path |-> <<>>, theme |-> <<>>]

IdleRetry ==
    /\ pc = "idle" /\ idx = 1 /\ log = <<>>
    /\ args = [method |-> "textDocument/hover", token |-> Undef]
    /\ outcome = [kind |-> "pending", value |-> Pending]

Init ==
    /\ pc = "call"
    /\ idx = 1
    /\ args \in [method : Methods, token : Tokens]
    /\ log = <<>>
    /\ outcome = [kind |-> "pending", value |-> Pending]
    /\ IdleTheme
    /\ IdleLoad

\* the loop takes its next element, or falls out of the loop to throw 'unreachable'
Advance(k) ==
    IF k <= Len(Delays)
    THEN /\ pc' = "call" /\ idx' = k /\ UNCHANGED outcome
    ELSE /\ pc' = "threw" /\ idx' = k /\ outcome' = [kind |-> "throw", value |-> Unreachable]

\* client.sendRequest(method, param[, token]) is issued and awaited
SendRequest ==
    /\ pc = "call"
    /\ log' = Append(log, SendEvent(idx))
    /\ pc' = "await"
    /\ UNCHANGED <<idx, args, outcome, themeVars, loadVars>>

\* mutant of Resolve: the awaited value is dropped (await without return)
ResolveDropsValue ==
    /\ pc = "await"
    /\ \E r \in Results :
        /\ outcome' = [kind |-> "return", value |-> ResultOf(Undef, idx)]
        /\ log' = Append(log, SettleEvent(idx, TRUE, ResultOf(r, idx)))
    /\ pc' = "returned"
    /\ UNCHANGED <<idx, args, themeVars, loadVars>>

\* the awaited request resolves: return its value
Resolve ==
    /\ pc = "await"
    /\ \E r \in Results :
        /\ outcome' = [kind |-> "return", value |-> ResultOf(r, idx)]
        /\ log' = Append(log, SettleEvent(idx, TRUE, ResultOf(r, idx)))
    /\ pc' = "returned"
    /\ UNCHANGED <<idx, args, themeVars, loadVars>>

\* the awaited request rejects: the catch block
Reject ==
    /\ pc = "await"
    /\ \E err \in Rejections(idx) :
        LET delay == Delays[idx] IN
        IF ~delay.isNull /\ err.tag = "nullish"
        THEN \* err.code of undefined throws inside the catch block
             /\ outcome' = [kind |-> "throw", value |-> TypeError]
             /\ log' = Append(log, SettleEvent(idx, FALSE, err))
             /\ pc' = "threw"
        ELSE IF Rethrows(delay, err)
        THEN /\ outcome' = [kind |-> "throw", value |-> err]
             /\ log' = Append(log, SettleEvent(idx, FALSE, err))
             /\ pc' = "threw"
        ELSE /\ log' = log \o <<SettleEvent(idx, FALSE, err), SleepEvent(SleepMs(delay))>>
             /\ pc' = "sleep"
             /\ UNCHANGED outcome
    /\ UNCHANGED <<idx, args, themeVars, loadVars>>

\* the timer of sleep fires: the next iteration of the loop
Wake ==
    /\ pc = "sleep"
    /\ Advance(idx + 1)
    /\ UNCHANGED <<args, log, themeVars, loadVars>>

Next == SendRequest \/ Resolve \/ Reject \/ Wake

Spec == Init /\ [][Next]_vars

(***************************************************************************)
(*                             ColorTheme                                  *)
(***************************************************************************)

\* strings are sequences of characters, so that startsWith is a prefix test
Comm == <<"c", "o", "m", "m">>
Comment == <<"c", "o", "m", "m", "e", "n", "t">>
CommentLine == <<"c", "o", "m", "m", "e", "n", "t", ".", "l", "i", "n", "e">>

\* String.prototype.startsWith
StartsWith(str, prefix) ==
    /\ Len(prefix) <= Len(str)
    /\ SubSeq(str, 1, Len(prefix)) = prefix

\* TextMateRuleSettings: three optional fields
Fields == {"foreground", "background", "fontStyle"}
NoSettings == [f \in Fields |-> Undef]

\* the values the rule number i of the inputs gives to the fields it sets
Foregrounds == <<"red", "blue", "green", "cyan", "pink", "gold">>
Backgrounds == <<"black", "white", "grey", "navy", "olive", "teal">>
FontStyles == <<"bold", "italic", "underline", "strikethrough", "bold italic", "">>
SettingsOf(i, set) ==
    LET j == ((i - 1) % Len(Foregrounds)) + 1 IN
    [foreground |-> IF "foreground" \in set THEN Foregrounds[j] ELSE Undef,
     background |-> IF "background" \in set THEN Backgrounds[j] ELSE Undef,
     fontStyle  |-> IF "fontStyle" \in set THEN FontStyles[j] ELSE Undef]

\* TextMateRule.scope: undefined, a string, or an array of strings
NoScope == [type |-> "undefined", str |-> <<>>, arr |-> <<>>]
StrScope(str) == [type |-> "string", str |-> str, arr |-> <<>>]
ArrScope(arr) == [type |-> "object", str |-> <<>>, arr |-> arr]
ScopeChoices ==
    {NoScope, StrScope(Comment), StrScope(CommentLine),
     ArrScope(<<Comment, CommentLine>>), ArrScope(<<CommentLine, Comment>>)}

\* the rules that may stand at position i of a rule list
RulesAt(i) == {[scope |-> sc, settings |-> SettingsOf(i, set)] : sc \in ScopeChoices, set \in SUBSET Fields}

\* a Map<string, TextMateRuleSettings>: its entries in insertion order
EmptyTheme == <<>>
Keys(map) == {map[i].key : i \in 1..Len(map)}
MapHas(map, key) == key \in Keys(map)
MapIndex(map, key) == CHOOSE i \in 1..Len(map) : map[i].key = key
\* Map.prototype.get: [defined, value]
MapGet(map, key) ==
    IF MapHas(map, key)
    THEN [defined |-> TRUE, value |-> map[MapIndex(map, key)].value]
    ELSE [defined |-> FALSE, value |-> NoSettings]
\* Map.prototype.set: an existing key keeps its place, a new key goes last
MapSet(map, key, value) ==
    IF MapHas(map, key)
    THEN [map EXCEPT ![MapIndex(map, key)].value = value]
    ELSE Append(map, [key |-> key, value |-> value])

\* a ?? b
Coalesce(a, b) == IF a \in {Undef, Null} THEN b ELSE a
\* defaultSetting?.field
OptField(defaultSetting, f) == IF defaultSetting.defined THEN defaultSetting.value[f] ELSE Undef

\* mutants of mergeRuleSettings: the default wins; fontStyle is not merged
MergeDefaultWins(defaultSetting, override) ==
    [f \in Fields |-> Coalesce(OptField(defaultSetting, f), override[f])]
MergeDropsFontStyle(defaultSetting, override) ==
    [f \in Fields |-> IF f = "fontStyle" THEN override[f]
                      ELSE Coalesce(override[f], OptField(defaultSetting, f))]

\* mergeRuleSettings(defaultSetting, override)
mergeRuleSettings(defaultSetting, override) ==
    [foreground |-> Coalesce(override.foreground, OptField(defaultSetting, "foreground")),
     background |-> Coalesce(override.background, OptField(defaultSetting, "background")),
     fontStyle  |-> Coalesce(override.fontStyle, OptField(defaultSetting, "fontStyle"))]

Defined(settings) == [defined |-> TRUE, value |-> settings]

\* mutant of the scope expansion: only the first scope of an array is taken
ScopesFirstOnly(rule) ==
    IF rule.scope.type = "undefined" THEN <<>>
    ELSE IF rule.scope.type = "string" THEN <<rule.scope.str>>
    ELSE SubSeq(rule.scope.arr, 1, 1)

\* the scopes of a rule: [] for undefined, [scope] for a string, else the array
ScopesOfRule(rule) ==
    IF rule.scope.type = "undefined" THEN <<>>
    ELSE IF rule.scope.type = "string" THEN <<rule.scope.str>>
    ELSE rule.scope.arr

\* for (const scope of scopes) res.rules.set(scope, rule.settings)
RECURSIVE SetAll(_, _, _)
SetAll(map, scopes, settings) ==
    IF scopes = <<>> THEN map
    ELSE SetAll(MapSet(map, Head(scopes), settings), Tail(scopes), settings)

\* one iteration of the loop of fromRules
RegisterRule(map, rule) == SetAll(map, ScopesOfRule(rule), rule.settings)

\* ColorTheme.fromRules, from a theme that holds map
RECURSIVE FromRulesInto(_, _)
FromRulesInto(map, rs) ==
    IF rs = <<>> THEN map
    ELSE FromRulesInto(RegisterRule(map, Head(rs)), Tail(rs))

\* ColorTheme.fromRules(rules)
fromRules(rs) == FromRulesInto(EmptyTheme, rs)

\* this.rules.forEach of lookup, for one scope: entries i.. of the map
RECURSIVE LookupScope(_, _, _, _)
LookupScope(map, i, scope, acc) ==
    IF i > Len(map) THEN acc
    ELSE LookupScope(map, i + 1, scope,
            IF StartsWith(scope, map[i].key)
            THEN mergeRuleSettings(Defined(acc), map[i].value)
            ELSE acc)

RECURSIVE LookupFrom(_, _, _)
LookupFrom(map, scopes, acc) ==
    IF scopes = <<>> THEN acc
    ELSE LookupFrom(map, Tail(scopes), LookupScope(map, 1, Head(scopes), acc))

\* ColorTheme.lookup(scopes); the initial {} has no field set
lookup(map, scopes) == LookupFrom(map, scopes, NoSettings)

\* other.rules.forEach of mergeFrom: entries i.. of other
RECURSIVE MergeEntries(_, _, _)
MergeEntries(this, otherMap, i) ==
    IF i > Len(otherMap) THEN this
    ELSE MergeEntries(
            MapSet(this, otherMap[i].key,
                   mergeRuleSettings(MapGet(this, otherMap[i].key), otherMap[i].value)),
            otherMap, i + 1)

\* ColorTheme.mergeFrom(other): the rules of this afterwards
mergeFrom(this, otherMap) == MergeEntries(this, otherMap, 1)

\* the two objects after this.mergeFrom(other): other.rules is only read
MergeFromCall(this, otherMap) == [this |-> mergeFrom(this, otherMap), other |-> otherMap]

\* the themes passed to mergeFrom: built by fromRules from up to two rules
OtherRuleLists ==
    {<<>>} \cup {<<r>> : r \in RulesAt(5)}
           \cup {<<r, q>> : r \in RulesAt(5), q \in RulesAt(6)}
OtherThemes == {fromRules(rs) : rs \in OtherRuleLists}

\* the arguments of lookup
ScopeLists == {<<>>, <<Comm>>, <<Comment>>, <<CommentLine>>, <<Comment, CommentLine>>}

\* the longest rule list given to fromRules
MaxRules == 2

InitTheme ==
    /\ IdleRetry
    /\ IdleLoad
    /\ tpc = "fromRules"
    /\ rules = <<>>
    /\ theme = EmptyTheme
    /\ other = EmptyTheme
    /\ prev = [this |-> EmptyTheme, other |-> EmptyTheme]
    /\ scopesArg = <<>>
    /\ looked = NoSettings

\* fromRules takes the next rule of its argument
FromRulesStep ==
    /\ tpc = "fromRules"
    /\ Len(rules) < MaxRules
    /\ \E rule \in RulesAt(Len(rules) + 1) :
        /\ rules' = Append(rules, rule)
        /\ theme' = RegisterRule(theme, rule)
    /\ UNCHANGED <<tpc, other, prev, scopesArg, looked, retryVars, loadVars>>

\* fromRules returns res
FromRulesReturn ==
    /\ tpc = "fromRules"
    /\ tpc' = "built"
    /\ rules' = <<>>
    /\ UNCHANGED <<theme, other, prev, scopesArg, looked, retryVars, loadVars>>

\* the argument of mergeFrom is evaluated
EvalOther ==
    /\ tpc = "built"
    /\ \E o \in OtherThemes : other' = o
    /\ tpc' = "arg"
    /\ UNCHANGED <<rules, theme, prev, scopesArg, looked, retryVars, loadVars>>

\* this.mergeFrom(other)
MergeFromAct ==
    /\ tpc = "arg"
    /\ LET after == MergeFromCall(theme, other) IN
        /\ theme' = after.this
        /\ other' = after.other
    /\ prev' = [this |-> theme, other |-> other]
    /\ tpc' = "merged"
    /\ UNCHANGED <<rules, scopesArg, looked, retryVars, loadVars>>

\* this.lookup(scopes)
LookupAct ==
    /\ tpc = "built"
    /\ \E scopes \in ScopeLists :
        /\ scopesArg' = scopes
        /\ looked' = lookup(theme, scopes)
    /\ tpc' = "looked"
    /\ UNCHANGED <<rules, theme, other, prev, retryVars, loadVars>>

NextTheme == FromRulesStep \/ FromRulesReturn \/ EvalOther \/ MergeFromAct \/ LookupAct

SpecTheme == InitTheme /\ [][NextTheme]_vars


(***************************************************************************)
(*                   loadThemeNamed and loadThemeFile                      *)
(***************************************************************************)

\* a value that may be undefined: x ?? [] is its items, or the empty list
None == [defined |-> FALSE, items |-> <<>>]
Some(items) == [defined |-> TRUE, items |-> items]
OrEmpty(opt) == IF opt.defined THEN opt.items ELSE <<>>

\* paths are sequences of segments; the theme files lie in one directory
ThemeDir == <<"ext", "themes">>
Names == {"a.json", "b.json", "m.json"}

\* path.dirname and path.join, for a file name as second argument
Dirname(path) == SubSeq(path, 1, Len(path) - 1)
Join(dir, name) == Append(dir, name)

\* a.json and b.json exist, m.json does not
PathA == Join(ThemeDir, "a.json")
PathB == Join(ThemeDir, "b.json")
PathM == Join(ThemeDir, "m.json")

\* mutant of the include resolution: the including file is taken for a directory
ResolveNoDirname(themePath, include) == Join(themePath, include)

\* path.join(path.dirname(themePath), include)
ResolveInclude(themePath, include) == Join(Dirname(themePath), include)

\* fs.readFileSync(themePath) does not throw
Readable(path) == path \in DOMAIN fsys /\ fsys[path].readable

\* the result of jsonc.parse: undefined, or an object with two optional members
ObjUndefined == [defined |-> FALSE, tokenColors |-> None, include |-> None]
Obj(tokenColors, include) == [defined |-> TRUE, tokenColors |-> tokenColors, include |-> include]
Unreadable == [readable |-> FALSE, obj |-> ObjUndefined]
File(obj) == [readable |-> TRUE, obj |-> obj]

\* mutant of the member read: tokenColors is never found
TokenColorsMissing(obj) == <<>>

\* obj?.tokenColors ?? []
TokenColorsOf(obj) == IF obj.defined THEN OrEmpty(obj.tokenColors) ELSE <<>>
\* obj?.include ?? []
IncludeOf(obj) == IF obj.defined THEN OrEmpty(obj.include) ELSE <<>>

\* the frame of a call of loadThemeFile on a readable file, after line 105
Frame(path) ==
    [path |-> path,
     res |-> fromRules(TokenColorsOf(fsys[path].obj)),
     include |-> IncludeOf(fsys[path].obj),
     k |-> 1]

\* mutant of the customization read: textMateRules is never found
CustomRulesMissing(cust) == <<>>

\* customizations?.textMateRules ?? []
CustomRules(cust) == IF cust.defined THEN OrEmpty(cust.textMateRules) ELSE <<>>

\* the deepest recursion of loadThemeFile the model follows
MaxDepth == 4
\* the longest include list of a theme file
MaxIncludes == 2

RECURSIVE SeqsUpTo(_, _)
SeqsUpTo(S, n) ==
    IF n = 0 THEN {<<>>}
    ELSE LET shorter == SeqsUpTo(S, n - 1)
         IN  shorter \cup {Append(q, x) : q \in {t \in shorter : Len(t) = n - 1}, x \in S}

\* the include members of the theme files
IncludeChoices == {None} \cup {Some(l) : l \in SeqsUpTo(Names, MaxIncludes)}

\* the tokenColors of the two theme files
RuleA1 == [scope |-> ArrScope(<<Comment, CommentLine>>), settings |-> SettingsOf(1, {"foreground", "background"})]
RuleA2 == [scope |-> StrScope(Comment), settings |-> SettingsOf(2, {"fontStyle"})]
RuleB1 == [scope |-> StrScope(CommentLine), settings |-> SettingsOf(3, {"foreground"})]
RuleB2 == [scope |-> StrScope(Comment), settings |-> SettingsOf(4, {"background", "fontStyle"})]

NoCust == [defined |-> FALSE, textMateRules |-> None]
Cust(textMateRules) == [defined |-> TRUE, textMateRules |-> textMateRules]

\* what every run of loadThemeNamed starts from
StartLoad ==
    /\ IdleRetry
    /\ IdleTheme
    /\ lpc = "files"
    /\ tp = 1
    /\ stack = <<>>
    /\ res = EmptyTheme
    /\ ret = [called |-> FALSE, path |-> <<>>, theme |-> EmptyTheme]
    /\ returns = <<>>
    /\ visits = <<>>
    /\ afterFiles = EmptyTheme

\* theme files with every include graph over a.json, b.json and the missing
\* m.json; no customizations
InitLoad ==
    /\ StartLoad
    /\ \E fa \in {Obj(tc, inc) : tc \in {Some(<<RuleA1>>), Some(<<RuleA1, RuleA2>>)}, inc \in IncludeChoices},
          fb \in {ObjUndefined} \cup
                 {Obj(Some(<<RuleB1, RuleB2>>), inc) : inc \in IncludeChoices} :
        fsys = (PathA :> File(fa)) @@ (PathB :> File(fb)) @@ (PathM :> Unreadable)
    /\ themePaths \in {<<PathA>>, <<PathM>>, <<PathB, PathA>>}
    /\ globalCust = NoCust
    /\ themeCust = NoCust

\* loadThemeNamed calls loadThemeFile(themePath) for the next theme path: a
\* call whose readFileSync throws returns an empty theme at once, which is
\* merged into res; any other call gets a frame
LoadThemePath ==
    /\ lpc = "files" /\ stack = <<>> /\ tp <= Len(themePaths)
    /\ LET path == themePaths[tp] IN
        IF Readable(path)
        THEN /\ stack' = <<Frame(path)>>
             /\ visits' = <<path>>
             /\ UNCHANGED <<res, ret, returns, tp>>
        ELSE /\ ret' = [called |-> TRUE, path |-> path, theme |-> EmptyTheme]
             /\ returns' = Append(returns, [path |-> path, theme |-> EmptyTheme])
             /\ res' = mergeFrom(res, EmptyTheme)
             /\ tp' = tp + 1
             /\ visits' = <<path>>
             /\ UNCHANGED stack
    /\ UNCHANGED <<fsys, themePaths, globalCust, themeCust, lpc, afterFiles, retryVars, themeVars>>

\* the loop over include of the topmost call takes its next element and calls
\* loadThemeFile(includePath)
Include ==
    /\ stack # <<>>
    /\ LET n == Len(stack)
           top == stack[n]
       IN  /\ top.k <= Len(top.include)
           /\ LET includePath == ResolveInclude(top.path, top.include[top.k]) IN
                IF Readable(includePath)
                THEN /\ n < MaxDepth
                     /\ stack' = Append(stack, Frame(includePath))
                     /\ visits' = Append(visits, includePath)
                     /\ UNCHANGED ret
                ELSE /\ ret' = [called |-> TRUE, path |-> includePath, theme |-> EmptyTheme]
                     /\ stack' = [stack EXCEPT ![n].res = mergeFrom(top.res, EmptyTheme),
                                               ![n].k = top.k + 1]
                     /\ visits' = Append(visits, includePath)
    /\ UNCHANGED <<fsys, themePaths, globalCust, themeCust, lpc, tp, res, returns, afterFiles, retryVars, themeVars>>

\* the topmost call has gone through its include list: return res, which the
\* caller merges into its own res
ReturnFile ==
    /\ stack # <<>>
    /\ LET n == Len(stack)
           top == stack[n]
       IN  /\ top.k > Len(top.include)
           /\ ret' = [called |-> TRUE, path |-> top.path, theme |-> top.res]
           /\ IF n > 1
              THEN /\ stack' = [SubSeq(stack, 1, n - 1) EXCEPT
                                    ![n - 1].res = mergeFrom(stack[n - 1].res, top.res),
                                    ![n - 1].k = stack[n - 1].k + 1]
                   /\ UNCHANGED <<res, returns, tp>>
              ELSE /\ stack' = <<>>
                   /\ res' = mergeFrom(res, top.res)
                   /\ returns' = Append(returns, [path |-> top.path, theme |-> top.res])
                   /\ tp' = tp + 1
    /\ UNCHANGED <<fsys, themePaths, globalCust, themeCust, lpc, visits, afterFiles, retryVars, themeVars>>

\* mutant of the two configuration reads: each reads the other's section
CustomizationsSwapped(step) == IF step = "global" THEN themeCust ELSE globalCust

\* global_customizations and theme_customizations, as read from the configuration
Customizations(step) == IF step = "global" THEN globalCust ELSE themeCust

\* res.mergeFrom(ColorTheme.fromRules(global_customizations?.textMateRules ?? []))
MergeGlobal ==
    /\ lpc = "files" /\ stack = <<>> /\ tp > Len(themePaths)
    /\ afterFiles' = res
    /\ res' = mergeFrom(res, fromRules(CustomRules(Customizations("global"))))
    /\ lpc' = "global"
    /\ UNCHANGED <<fsys, themePaths, globalCust, themeCust, tp, stack, ret, returns, visits, retryVars, themeVars>>

\* res.mergeFrom(ColorTheme.fromRules(theme_customizations?.textMateRules ?? [])); return res
MergeThemeCust ==
    /\ lpc = "global"
    /\ res' = mergeFrom(res, fromRules(CustomRules(Customizations("theme"))))
    /\ lpc' = "done"
    /\ UNCHANGED <<fsys, themePaths, globalCust, themeCust, tp, stack, ret, returns, visits, afterFiles, retryVars, themeVars>>

\* one theme file with one rule for "comment", which may include b.json; every
\* choice of the fields the file, the global and the theme-specific
\* customizations set
InitNamed ==
    /\ StartLoad
    /\ \E set \in SUBSET Fields, inc \in {None, Some(<<"b.json">>)} :
        fsys = (PathA :> File(Obj(Some(<<[scope |-> StrScope(Comment), settings |-> SettingsOf(1, set)]>>), inc)))
               @@ (PathB :> File(Obj(Some(<<RuleB1, RuleB2>>), None)))
               @@ (PathM :> Unreadable)
    /\ themePaths \in {<<PathA>>, <<PathA, PathB>>, <<PathM, PathA>>}
    /\ globalCust \in {NoCust, Cust(None)} \cup
            {Cust(Some(<<[scope |-> StrScope(Comment), settings |-> SettingsOf(5, set)]>>)) : set \in SUBSET Fields}
            \cup {Cust(Some(<<[scope |-> StrScope(Comment), settings |-> SettingsOf(4, {"foreground"})],
                              [scope |-> StrScope(Comment), settings |-> SettingsOf(5, {"background"})]>>))}
    /\ themeCust \in {NoCust, Cust(None)} \cup
            {Cust(Some(<<[scope |-> sc, settings |-> SettingsOf(6, set)]>>)) :
                sc \in {StrScope(Comment), StrScope(CommentLine)}, set \in SUBSET Fields}

NextLoad == LoadThemePath \/ Include \/ ReturnFile \/ MergeGlobal \/ MergeThemeCust

\* the loader is synchronous code: as long as a step is possible, it is taken
SpecLoad == InitLoad /\ [][NextLoad]_vars /\ WF_vars(NextLoad)

SpecNamed == InitNamed /\ [][NextLoad]_vars /\ WF_vars(NextLoad)


(***************************************************************************)
(*                   Properties of sendRequestWithRetry                    *)
(***************************************************************************)

Events(kind) == {j \in 1..Len(log) : log[j].ev = kind}
Sends == Cardinality(Events("send"))
Sleeps == Cardinality(Events("sleep"))
\* the attempts that failed with a ContentModified error
ModifiedFails == {j \in Events("fail") : log[j].value.tag = "error" /\ log[j].value.code = ContentModified}
Settled == pc \in {"returned", "threw"}

\* C1: an attempt that fails with an error object whose code is not
\* ContentModified ends the call: that very error is what the caller gets, no
\* sleep and no send follows it (it is the last entry of the log and nothing
\* is enabled afterwards), and after such a failure of the first attempt
\* client.sendRequest has been called exactly once.
C1_FatalErrorRethrown ==
    \A j \in Events("fail") :
        (log[j].value.tag = "error" /\ log[j].value.code # ContentModified) =>
            /\ j = Len(log)
            /\ pc = "threw"
            /\ outcome = [kind |-> "throw", value |-> log[j].value]
            /\ log[j].value.attempt = log[j].n
            /\ Sends = log[j].n
            /\ Sleeps = log[j].n - 1
            /\ (log[j].n = 1 => Sends = 1 /\ Sleeps = 0)
            /\ ~ENABLED Next

C1_Witness ==
    /\ pc = "threw"
    /\ outcome.value = ErrorOf("RequestCancelled", 3)
    /\ Sends = 3

\* the log of a call all of whose attempts fail with ContentModified
ModifiedFail(k) == [ev |-> "fail", n |-> k, value |-> ErrorOf(ContentModified, k)]
ExpectedSend(k) ==
    IF args.token = "token"
    THEN [ev |-> "send", n |-> k, method |-> args.method, argc |-> 3]
    ELSE [ev |-> "send", n |-> k, method |-> args.method, argc |-> 2]
ExpectedBackoffLog ==
    LET send(k) == ExpectedSend(k) IN
    << send(1), ModifiedFail(1), [ev |-> "sleep", ms |-> 40],
       send(2), ModifiedFail(2), [ev |-> "sleep", ms |-> 160],
       send(3), ModifiedFail(3), [ev |-> "sleep", ms |-> 640],
       send(4), ModifiedFail(4), [ev |-> "sleep", ms |-> 2560],
       send(5), ModifiedFail(5), [ev |-> "sleep", ms |-> 10240],
       send(6), ModifiedFail(6) >>

\* C2: when all attempts fail with ContentModified, the call has made exactly
\* six sends, each issued after the previous attempt settled and its sleep
\* ended, with the five sleeps 40, 160, 640, 2560, 10240 ms between them in
\* this order, none after the sixth failure, and then it has failed; until
\* then, what it has done is a prefix of that schedule.
C2_BackoffSchedule ==
    LET n == Cardinality(ModifiedFails)
        expected == ExpectedBackoffLog
    IN  /\ (n = Len(log) - Sends - Sleeps /\ ~Settled) =>
                /\ Len(log) <= Len(expected)
                /\ log = SubSeq(expected, 1, Len(log))
        /\ n = 6 =>
                /\ log = expected
                /\ Sends = 6 /\ Sleeps = 5
                /\ pc = "threw" /\ outcome.kind = "throw"
                /\ ~ENABLED Next

C2_Witness == Cardinality(ModifiedFails) = 6 /\ pc = "threw" /\ Sleeps = 5

\* C3 as claimed: when the sixth attempt also fails with ContentModified, the
\* caller gets the 'unreachable' sentinel.
C3_Original ==
    (pc = "threw" /\ Cardinality(ModifiedFails) = 6) => outcome.value = Unreachable

\* C3 as amended: when the sixth attempt also fails with ContentModified, the
\* caller gets the ContentModified error of that sixth attempt; the
\* 'unreachable' sentinel is never thrown.
C3_LastErrorRethrown ==
    /\ (pc = "threw" /\ Cardinality(ModifiedFails) = 6) =>
            outcome = [kind |-> "throw", value |-> ErrorOf(ContentModified, 6)]
    /\ outcome.value # Unreachable

C3_Witness ==
    /\ pc = "threw"
    /\ outcome.value = ErrorOf(ContentModified, 6)
    /\ log[Len(log)] = ModifiedFail(6)

\* C4: a successful attempt k (1 <= k <= 6) ends the call: the attempts before
\* it all failed with ContentModified, the call returns the value attempt k
\* resolved with, client.sendRequest was called k times and k - 1 sleeps
\* occurred, and nothing happens afterwards.
C4_SuccessAfterRetries ==
    /\ \A j \in Events("ok") :
        LET k == log[j].n IN
        /\ j = Len(log)
        /\ k \in 1..6
        /\ pc = "returned"
        /\ outcome = [kind |-> "return", value |-> log[j].value]
        /\ log[j].value.attempt = k
        /\ Sends = k
        /\ Sleeps = k - 1
        /\ Cardinality(ModifiedFails) = k - 1
        /\ Cardinality(Events("fail")) = k - 1
        /\ ~ENABLED Next
    /\ pc = "returned" => Events("ok") # {}

C4_Witness ==
    /\ pc = "returned"
    /\ Sends = 6 /\ Sleeps = 5
    /\ outcome.value = ResultOf("r2", 6)


(***************************************************************************)
(*                       Properties of ColorTheme                          *)
(***************************************************************************)

\* the settings a theme holds for a key it has
At(map, key) == map[MapIndex(map, key)].value
\* the scope keys a rule names
ScopeSet(rule) ==
    CASE rule.scope.type = "undefined" -> {}
      [] rule.scope.type = "string" -> {rule.scope.str}
      [] OTHER -> {rule.scope.arr[i] : i \in 1..Len(rule.scope.arr)}
\* the last rule of a list that names a key
LastNaming(rs, key) ==
    CHOOSE j \in 1..Len(rs) :
        /\ key \in ScopeSet(rs[j])
        /\ \A k \in (j + 1)..Len(rs) : key \notin ScopeSet(rs[k])

\* C5 as claimed: with rules for "comment" and "comment.line" in the theme,
\* lookup(["comment.line"]) returns, field by field, the value of the
\* "comment.line" rule where it sets the field and that of the "comment" rule
\* otherwise, in whichever order the two rules were registered.
C5_Original ==
    (tpc = "looked" /\ scopesArg = <<CommentLine>> /\ Keys(theme) = {Comment, CommentLine}) =>
        \A f \in Fields :
            looked[f] = IF At(theme, CommentLine)[f] # Undef
                        THEN At(theme, CommentLine)[f]
                        ELSE At(theme, Comment)[f]

\* C5 as amended: the lookup returns the field-wise merge of both rules in
\* which, for a field set by both, the value of the rule whose key entered the
\* theme later is returned: that of "comment.line" when "comment" was
\* registered first, that of "comment" when "comment.line" was registered first.
C5_LookupLaterKeyWins ==
    (tpc = "looked" /\ scopesArg = <<CommentLine>> /\ Keys(theme) = {Comment, CommentLine}) =>
        /\ Len(theme) = 2
        /\ \A f \in Fields :
            looked[f] = IF theme[2].value[f] # Undef
                        THEN theme[2].value[f]
                        ELSE theme[1].value[f]

C5_Witness ==
    /\ tpc = "looked" /\ scopesArg = <<CommentLine>>
    /\ Len(theme) = 2
    /\ theme[1] = [key |-> Comment, value |-> SettingsOf(1, {"foreground", "background"})]
    /\ theme[2] = [key |-> CommentLine, value |-> SettingsOf(2, {"foreground", "fontStyle"})]
    /\ looked = [foreground |-> "blue", background |-> "black", fontStyle |-> "italic"]

\* C6: after A.mergeFrom(B), A has the keys of both; a key only B had holds
\* exactly B's three fields; a key both had holds, per field, B's value where
\* B sets the field and A's old value where B leaves it unset; a key only A
\* had keeps A's settings; B is as it was.
C6_MergeFrom ==
    tpc = "merged" =>
        LET A == prev.this
            B == prev.other
        IN  /\ other = B
            /\ Keys(theme) = Keys(A) \cup Keys(B)
            /\ Len(theme) = Cardinality(Keys(theme))
            /\ \A key \in Keys(B) \ Keys(A) :
                \A f \in Fields : At(theme, key)[f] = At(B, key)[f]
            /\ \A key \in Keys(B) \cap Keys(A) :
                \A f \in Fields :
                    At(theme, key)[f] = IF At(B, key)[f] # Undef THEN At(B, key)[f] ELSE At(A, key)[f]
            /\ \A key \in Keys(A) \ Keys(B) : At(theme, key) = At(A, key)

C6_Witness ==
    /\ tpc = "merged"
    /\ Keys(prev.this) = {Comment}
    /\ Keys(prev.other) = {Comment, CommentLine}
    /\ At(prev.this, Comment) = SettingsOf(1, Fields)
    /\ At(prev.other, Comment) = SettingsOf(5, {"foreground"})
    /\ At(theme, Comment) = [foreground |-> "pink", background |-> "black", fontStyle |-> "bold"]
    /\ At(theme, CommentLine) = At(prev.other, CommentLine)

\* C8: fromRules gives the theme the scope keys of its rules and no others: a
\* rule without scope adds no key; once a rule is taken, its settings stand
\* under its scope string, or under every scope of its array alike; in the
\* result each key holds the settings of the last rule naming it.
C8_FromRulesScopes ==
    tpc = "fromRules" =>
        /\ theme = fromRules(rules)
        /\ Len(theme) = Cardinality(Keys(theme))
        /\ Keys(theme) = UNION {ScopeSet(rules[j]) : j \in 1..Len(rules)}
        /\ \A j \in 1..Len(rules) :
            LET before == fromRules(SubSeq(rules, 1, j - 1))
                after == fromRules(SubSeq(rules, 1, j))
            IN  /\ Keys(after) = Keys(before) \cup ScopeSet(rules[j])
                /\ rules[j].scope.type = "undefined" => after = before
                /\ \A key \in ScopeSet(rules[j]) : At(after, key) = rules[j].settings
                /\ \A key \in Keys(before) \ ScopeSet(rules[j]) : At(after, key) = At(before, key)
        /\ \A key \in Keys(theme) : At(theme, key) = rules[LastNaming(rules, key)].settings

C8_Witness ==
    /\ tpc = "fromRules"
    /\ Len(rules) = 2
    /\ rules[1].scope = ArrScope(<<Comment, CommentLine>>)
    /\ rules[1].settings = SettingsOf(1, {"foreground", "fontStyle"})
    /\ rules[2].scope = NoScope
    /\ theme = << [key |-> Comment, value |-> [foreground |-> "red", background |-> Undef, fontStyle |-> "bold"]],
                  [key |-> CommentLine, value |-> [foreground |-> "red", background |-> Undef, fontStyle |-> "bold"]] >>


(***************************************************************************)
(*                    Properties of the theme loader                       *)
(***************************************************************************)

\* the include list of a file as written in it, and the files it names: the
\* siblings of the file with these names
WrittenIncludes(path) ==
    IF path \in DOMAIN fsys /\ fsys[path].readable /\ fsys[path].obj.defined /\ fsys[path].obj.include.defined
    THEN fsys[path].obj.include.items
    ELSE <<>>
WrittenTokenColors(path) ==
    IF fsys[path].obj.defined /\ fsys[path].obj.tokenColors.defined
    THEN fsys[path].obj.tokenColors.items
    ELSE <<>>
Sibling(name) == <<"ext", "themes", name>>
Included(path) == {Sibling(WrittenIncludes(path)[i]) : i \in 1..Len(WrittenIncludes(path))}
CanRead(path) == path \in DOMAIN fsys /\ fsys[path].readable

\* the files reachable from a set of files through includes
RECURSIVE Reach(_)
Reach(S) ==
    LET T == S \cup UNION {Included(q) : q \in S}
    IN  IF T = S THEN S ELSE Reach(T)
\* a readable file reachable from path includes itself, directly or not
Cyclic(path) == \E q \in Reach({path}) : CanRead(q) /\ q \in Reach(Included(q))

\* the calls of loadThemeFile a depth-first walk in declaration order makes
RECURSIVE Preorder(_, _)
RECURSIVE PreorderAll(_, _, _)
Preorder(path, fuel) ==
    IF fuel = 0 THEN <<path>>
    ELSE <<path>> \o PreorderAll(WrittenIncludes(path), 1, fuel - 1)
PreorderAll(names, i, fuel) ==
    IF i > Len(names) THEN <<>>
    ELSE Preorder(Sibling(names[i]), fuel) \o PreorderAll(names, i + 1, fuel)

SameRules(t1, t2) ==
    /\ Keys(t1) = Keys(t2)
    /\ \A key \in Keys(t1) : \A f \in Fields : At(t1, key)[f] = At(t2, key)[f]

\* the theme of a file when the includes that cannot be read are left out
RECURSIVE ReadableOnly(_, _)
RECURSIVE ReadableIncludes(_, _, _, _)
ReadableOnly(path, fuel) ==
    IF fuel = 0 \/ ~CanRead(path) THEN EmptyTheme
    ELSE ReadableIncludes(fromRules(WrittenTokenColors(path)), WrittenIncludes(path), 1, fuel - 1)
ReadableIncludes(acc, names, i, fuel) ==
    IF i > Len(names) THEN acc
    ELSE ReadableIncludes(
            IF CanRead(Sibling(names[i]))
            THEN mergeFrom(acc, ReadableOnly(Sibling(names[i]), fuel))
            ELSE acc,
            names, i + 1, fuel)

\* C7: a call of loadThemeFile on a readable file whose include list names
\* only paths that cannot be read returns, and returns the rules of
\* fromRules(the file's own tokenColors); a call on a file that cannot be
\* read returns the empty theme; and whatever else a file includes, the
\* includes that cannot be read add nothing to what its call returns.
C7_UnreadableInclude ==
    ret.called =>
        /\ ~CanRead(ret.path) => ret.theme = EmptyTheme
        /\ (/\ CanRead(ret.path)
            /\ Included(ret.path) # {}
            /\ \A q \in Included(ret.path) : ~CanRead(q))
                => SameRules(ret.theme, fromRules(WrittenTokenColors(ret.path)))
        /\ (CanRead(ret.path) /\ ~Cyclic(ret.path))
                => SameRules(ret.theme, ReadableOnly(ret.path, MaxDepth))

C7_Witness ==
    /\ ret.called
    /\ ret.path = PathA
    /\ WrittenIncludes(PathA) = <<"m.json", "m.json">>
    /\ WrittenTokenColors(PathA) = <<RuleA1, RuleA2>>
    /\ Keys(ret.theme) = {Comment, CommentLine}
    /\ At(ret.theme, Comment) = [foreground |-> Undef, background |-> Undef, fontStyle |-> "italic"]
    /\ At(ret.theme, CommentLine) = [foreground |-> "red", background |-> "black", fontStyle |-> Undef]

\* the sources of loadThemeNamed in the order it applies them: the themes its
\* calls of loadThemeFile returned, the global customizations, the
\* customizations of the active theme
WrittenRules(cust) ==
    IF cust.defined /\ cust.textMateRules.defined THEN cust.textMateRules.items ELSE <<>>
FileSources == [i \in 1..Len(returns) |-> returns[i].theme]
Sources == FileSources \o <<fromRules(WrittenRules(globalCust)), fromRules(WrittenRules(themeCust))>>
Setters(srcs, key, f) ==
    {i \in 1..Len(srcs) : key \in Keys(srcs[i]) /\ At(srcs[i], key)[f] # Undef}
Largest(S) == CHOOSE i \in S : \A j \in S : j <= i
\* a theme is the overlay of the sources: it has their keys, and each field
\* has the value of the last source that sets it
Overlay(t, srcs) ==
    /\ Keys(t) = UNION {Keys(srcs[i]) : i \in 1..Len(srcs)}
    /\ \A key \in Keys(t) : \A f \in Fields :
        At(t, key)[f] = IF Setters(srcs, key, f) = {} THEN Undef
                        ELSE At(srcs[Largest(Setters(srcs, key, f))], key)[f]

\* C9: loadThemeNamed loads the theme files in the order of themePaths, then
\* applies the global customizations, then those of the active theme: for
\* every scope key and field the result has the value of the last of these
\* sources that sets the field.
C9_SourceOrder ==
    /\ lpc \in {"global", "done"} =>
        /\ Len(returns) = Len(themePaths)
        /\ \A i \in 1..Len(returns) : returns[i].path = themePaths[i]
        /\ Overlay(afterFiles, FileSources)
    /\ lpc = "done" => Overlay(res, Sources)

C9_Witness ==
    /\ lpc = "done"
    /\ themePaths = <<PathA>>
    /\ At(afterFiles, Comment) = [foreground |-> "red", background |-> "black", fontStyle |-> "bold"]
    /\ WrittenRules(globalCust) = <<[scope |-> StrScope(Comment), settings |-> SettingsOf(5, {"foreground", "background"})]>>
    /\ WrittenRules(themeCust) = <<[scope |-> StrScope(Comment), settings |-> SettingsOf(6, {"foreground"})]>>
    /\ At(res, Comment) = [foreground |-> "gold", background |-> "olive", fontStyle |-> "bold"]

\* the first theme path from which a readable file that includes itself can
\* be reached; 0 when there is none
FirstCyclic ==
    IF \E i \in 1..Len(themePaths) : Cyclic(themePaths[i])
    THEN CHOOSE i \in 1..Len(themePaths) :
            Cyclic(themePaths[i]) /\ \A j \in 1..(i - 1) : ~Cyclic(themePaths[j])
    ELSE 0

\* C10: the calls of loadThemeFile follow the include lists depth-first in
\* declaration order. A call on a file from which no readable file that
\* includes itself can be reached returns (so loadThemeNamed gets through all
\* its theme paths when there is no such file); a call on a file from which
\* one can be reached never returns: its recursion goes on to any depth.
C10_IncludeRecursion ==
    /\ [](\A i \in 1..Len(returns) :
            /\ ~Cyclic(returns[i].path)
            /\ (i = Len(returns) /\ stack = <<>> /\ lpc = "files")
                    => visits = Preorder(returns[i].path, MaxDepth))
    /\ <>(IF FirstCyclic = 0
          THEN lpc = "done" /\ Len(returns) = Len(themePaths)
          ELSE Len(returns) = FirstCyclic - 1 /\ Len(stack) = MaxDepth)

C10_Witness ==
    /\ themePaths = <<PathB, PathA>>
    /\ WrittenIncludes(PathB) = <<"m.json">>
    /\ WrittenIncludes(PathA) = <<"b.json", "a.json">>
    /\ Len(returns) = 1
    /\ Len(stack) = MaxDepth
    /\ \A i \in 1..Len(stack) : stack[i].path = PathA
    /\ \A i \in 1..(Len(stack) - 1) : stack[i].k = 2

=============================================================================
